---- MODULE Spec2Model ----
(***************************************************************************)
(* The metadata store of aiapp/api.py: the catalog document               *)
(* (storage/metadata.json), the folder directories and files under        *)
(* storage/, the process-wide META_LOCK, and the request handlers that     *)
(* load, mutate and save the catalog.                                      *)
(*                                                                         *)
(* Sync handlers (def) run on worker threads; upload (async def) runs as   *)
(* a task of the single event loop.  uuid4() is modelled as a fresh        *)
(* counter value.  Disk operations are assumed not to fail.                *)
(***************************************************************************)
EXTENDS Integers, Sequences, FiniteSets, TLC

\* ------------------------------------------------------------- bounds
\* number of uuid4() draws for folder ids / for file ids in one behaviour
MaxFolders == 2
MaxFiles == 3

\* request-handling threads / tasks
Procs == 1 .. 2

\* --------------------------------------------------- program constants
MAX_FILES_PER_UPLOAD == 50
MAX_FILE_SIZE_BYTES == 50 * 1024 * 1024
CHUNK_BYTES == 1024 * 1024
MAX_NAME_LEN == 60
DETAIL_NAMES == 5

\* ------------------------------------------------------ text helpers
\* A folder name is a sequence of one-character strings.  An upload
\* filename and a caller-supplied path are sequences of atoms: pieces of
\* text, the separators "/" and "\\", the blank " ", a suffix such as ".pdf".
RECURSIVE Concat(_)
Concat(atoms) ==
    IF atoms = <<>> THEN "" ELSE Head(atoms) \o Concat(Tail(atoms))

RECURSIVE LStrip(_)
LStrip(s) == IF s # <<>> /\ Head(s) = " " THEN LStrip(Tail(s)) ELSE s

RECURSIVE RStrip(_)
RStrip(s) ==
    IF s # <<>> /\ s[Len(s)] = " " THEN RStrip(SubSeq(s, 1, Len(s) - 1)) ELSE s

Strip(s) == RStrip(LStrip(s))

LowerPairs == {<<"D", "d">>, <<"R", "r">>, <<"P", "p">>, <<"X", "x">>}

LowerChar(c) ==
    IF \E pr \in LowerPairs : pr[1] = c
    THEN (CHOOSE pr \in LowerPairs : pr[1] = c)[2]
    ELSE c

Lower(s) == [i \in DOMAIN s |-> LowerChar(s[i])]

BadChars == {"\\", "/", ":", "*", "?", "\"", "<", ">", "|"}

\* _sanitize_name: the trimmed name, or the 400 error
sanitize_name(name) ==
    LET n == Strip(name) IN
    IF n = <<>> THEN [ok |-> FALSE, name |-> n]
    ELSE IF Len(n) > MAX_NAME_LEN THEN [ok |-> FALSE, name |-> n]
    ELSE IF \E i \in DOMAIN n : n[i] \in BadChars THEN [ok |-> FALSE, name |-> n]
    ELSE [ok |-> TRUE, name |-> n]

\* p.replace("\\", "/")
ReplaceBackslash(atoms) ==
    [i \in DOMAIN atoms |-> IF atoms[i] = "\\" THEN "/" ELSE atoms[i]]

\* p.split("/"): the texts between the "/" atoms
RECURSIVE SplitSlash(_, _)
SplitSlash(atoms, cur) ==
    IF atoms = <<>> THEN <<cur>>
    ELSE IF Head(atoms) = "/" THEN <<cur>> \o SplitSlash(Tail(atoms), "")
    ELSE SplitSlash(Tail(atoms), cur \o Head(atoms))

\* _safe_rel_path: the normalised relative path (a string), or the 400 error
safe_rel_path(raw) ==
    LET p == Strip(ReplaceBackslash(raw))
        segs == SplitSlash(p, "")
    IN  IF p = <<>> THEN [ok |-> FALSE, p |-> ""]
        ELSE IF \E i \in DOMAIN segs : segs[i] = ".." THEN [ok |-> FALSE, p |-> ""]
        ELSE [ok |-> TRUE, p |-> Concat(p)]

\* ---- absolute paths: a sequence of segments, each a sequence of characters
\* STORAGE_DIR = APP_ROOT / "storage" (here /a/s)
STORAGE_DIR == << <<"a">>, <<"s">> >>

\* str(path): the characters of an absolute path
RECURSIVE PathStr(_)
PathStr(segs) ==
    IF segs = <<>> THEN <<>> ELSE <<"/">> \o Head(segs) \o PathStr(Tail(segs))

\* the segments between the "/" characters
RECURSIVE SplitSegs(_, _)
SplitSegs(atoms, cur) ==
    IF atoms = <<>> THEN <<cur>>
    ELSE IF Head(atoms) = "/" THEN <<cur>> \o SplitSegs(Tail(atoms), <<>>)
    ELSE SplitSegs(Tail(atoms), Append(cur, Head(atoms)))

\* Path.resolve(), no symbolic links: empty and "." segments go, ".." pops
RECURSIVE Resolve(_, _)
Resolve(segs, acc) ==
    IF segs = <<>> THEN acc
    ELSE IF Head(segs) \in {<<>>, <<".">>} THEN Resolve(Tail(segs), acc)
    ELSE IF Head(segs) = <<".", ".">>
    THEN Resolve(Tail(segs), IF acc = <<>> THEN acc ELSE SubSeq(acc, 1, Len(acc) - 1))
    ELSE Resolve(Tail(segs), Append(acc, Head(segs)))

\* STORAGE_DIR / rel: an absolute rel replaces the left side
Join(base, rel) ==
    IF rel # <<>> /\ Head(rel) = "/"
    THEN SplitSegs(rel, <<>>)
    ELSE base \o SplitSegs(rel, <<>>)

\* str.startswith
StartsWith(str, prefix) ==
    Len(prefix) <= Len(str) /\ SubSeq(str, 1, Len(prefix)) = prefix

\* _safe_full_path: the resolved absolute path, or the 400 error
safe_full_path(server_name) ==
    LET rel == Strip(ReplaceBackslash(server_name))
        full == Resolve(Join(STORAGE_DIR, rel), <<>>)
        base == Resolve(STORAGE_DIR, <<>>)
    IN  IF ~safe_rel_path(server_name).ok THEN [ok |-> FALSE, full |-> <<>>]
        ELSE IF ~StartsWith(PathStr(full), PathStr(base)) THEN [ok |-> FALSE, full |-> <<>>]
        ELSE [ok |-> TRUE, full |-> full]

\* ------------------------------------------------------ the catalog
RootName == <<"R", "o", "o", "t">>

RootFolder == [id |-> "root", name |-> RootName, files |-> <<>>]

\* _default_metadata()["folders"]
default_metadata == <<RootFolder>>

\* the persisted document: absent, unparsable, parsable without a folders
\* list, or a mapping with a folders list
AbsentDoc == [kind |-> "absent", folders |-> <<>>]
GarbageDoc == [kind |-> "garbage", folders |-> <<>>]
NoShapeDoc == [kind |-> "noshape", folders |-> <<>>]
OkDoc(folders) == [kind |-> "ok", folders |-> folders]

HasRoot(folders) == \E i \in DOMAIN folders : folders[i].id = "root"

FolderIdsOf(folders) == {folders[i].id : i \in DOMAIN folders}

\* an item of the folders list: a mapping, or any other value (a record
\* with the field text)
IsMapping(f) == "text" \notin DOMAIN f

\* f.get("id")
get_id(f) == IF "id" \in DOMAIN f THEN f.id ELSE "None"

\* any(f.get("id") == "root" for f in data["folders"]) raises: an item that
\* is no mapping is met before an item with the id "root"
any_root_raises(folders) ==
    \E i \in DOMAIN folders :
        /\ ~IsMapping(folders[i])
        /\ \A j \in 1 .. (i - 1) : get_id(folders[j]) # "root"

any_root_missed(folders) == FALSE

\* any(f.get("id") == "root" for f in data["folders"])
any_root(folders) == \E i \in DOMAIN folders : get_id(folders[i]) = "root"

\* the first item at which (STORAGE_DIR / fd["id"]).mkdir raises, 0 if none
mkdir_raises_at(folders) ==
    LET bad == {i \in DOMAIN folders : ~IsMapping(folders[i]) \/ "id" \notin DOMAIN folders[i]}
    IN  IF bad = {} THEN 0 ELSE CHOOSE i \in bad : \A j \in bad : i <= j

\* except Exception: data = _default_metadata(); _save_metadata(data)
load_reset(ds) ==
    [data |-> default_metadata, doc |-> OkDoc(default_metadata), dirs |-> ds]

\* _load_metadata: the catalog returned, and the document and the folder
\* directories it leaves behind
load_metadata(d, ds) ==
    IF d.kind = "absent" \/ d.kind = "garbage"
    THEN load_reset(ds)
    ELSE LET d1 == IF d.kind = "noshape" THEN default_metadata ELSE d.folders IN
         IF any_root_raises(d1)
         THEN load_reset(ds)
         ELSE LET has_root == any_root(d1)
                  d2 == IF has_root THEN d1 ELSE <<RootFolder>> \o d1
                  saved == d.kind = "noshape" \/ ~has_root
                  k == mkdir_raises_at(d2)
              IN  IF k # 0
                  THEN load_reset(ds \cup {d2[j].id : j \in 1 .. (k - 1)})
                  ELSE [data |-> d2,
                        doc |-> IF saved THEN OkDoc(d2) ELSE d,
                        dirs |-> ds \cup FolderIdsOf(d2)]

\* index of the first folder with this id, 0 when _get_folder raises 404
get_folder(folders, folder_id) ==
    IF \E i \in DOMAIN folders : folders[i].id = folder_id
    THEN CHOOSE i \in DOMAIN folders :
            /\ folders[i].id = folder_id
            /\ \A j \in 1 .. (i - 1) : folders[j].id # folder_id
    ELSE 0

\* ------------------------------------------------------ the disk
\* a file under storage/: its folder directory and its name
DiskFile(dir, name) == [dir |-> dir, name |-> name]
Rel(f) == f.dir \o "/" \o f.name

Exists(dk, server_name) == \E f \in dk : Rel(f) = server_name

delete_path_skipped(dk, server_name) == dk

\* _delete_path_quiet
delete_path_quiet(dk, server_name) == {f \in dk : Rel(f) # server_name}

\* shutil.rmtree(folder_path, ignore_errors=True)
rmtree(dk, folder_id) == {f \in dk : f.dir # folder_id}

\* ------------------------------------------------------ state
VARIABLES
    doc,          \* storage/metadata.json
    tmp,          \* storage/metadata.tmp
    dirs,         \* folder directories under storage/
    disk,         \* files in the folder directories
    META_LOCK,    \* 0, or the holder
    loop,         \* 0, or the task that occupies the event loop thread
    next_folder,  \* uuid4() draws for folder ids
    next_file,    \* uuid4() draws for file ids
    pc,           \* where each thread / task is
    req,          \* its request
    data,         \* its loaded catalog
    loc,          \* its other locals
    res           \* its outcome

vars == <<doc, tmp, dirs, disk, META_LOCK, loop, next_folder, next_file,
          pc, req, data, loc, res>>

NoReq == [op |-> "none", name |-> <<>>, folder_id |-> "", path |-> <<>>,
          files |-> <<>>, paths |-> <<>>]

NoLoc == [i |-> 0, fid |-> 0, existing |-> <<>>, folder |-> RootFolder,
          missing |-> <<>>, not_in_folder |-> <<>>, detail |-> <<>>, full |-> <<>>,
          was |-> [doc |-> AbsentDoc, disk |-> {}]]

InitDocs == {AbsentDoc, GarbageDoc, NoShapeDoc, OkDoc(<<>>), OkDoc(default_metadata)}

Init ==
    /\ doc \in InitDocs
    /\ tmp = AbsentDoc
    /\ dirs = {}
    /\ disk = {}
    /\ META_LOCK = 0
    /\ loop = 0
    /\ next_folder = 1
    /\ next_file = 1
    /\ pc = [p \in Procs |-> "idle"]
    /\ req = [p \in Procs |-> NoReq]
    /\ data = [p \in Procs |-> <<>>]
    /\ loc = [p \in Procs |-> NoLoc]
    /\ res = [p \in Procs |-> "none"]

\* ------------------------------------------------------ inputs
LongName == [i \in 1 .. (MAX_NAME_LEN + 1) |-> "x"]

FolderNames ==
    { <<"D", "o", "c", "s">>, <<"d", "o", "c", "s">>, <<" ", "P", "i", "c", " ">>,
      <<"r", "o", "o", "t">>, <<" ">>, <<"a", "/", "b">>, LongName }

FolderId(n) == "fld_" \o ToString(n)

FolderIdInputs == {"root", "nope"} \cup {FolderId(n) : n \in 1 .. MaxFolders}

\* upload filenames (atoms) and uploads
NameA == <<"a", ".pdf">>
NameB == <<"d", "/", "b">>

Upload(filename, nbytes) == [filename |-> filename, nbytes |-> nbytes]

\* exactly at the ceiling, one byte over it, and an upload without a filename
FitsA == Upload(NameA, MAX_FILE_SIZE_BYTES)
BigB == Upload(NameB, MAX_FILE_SIZE_BYTES + 1)
Unnamed == Upload(<<>>, 3)
SmallB == Upload(NameB, CHUNK_BYTES + 1)

Batches ==
    { <<>>,
      [i \in 1 .. (MAX_FILES_PER_UPLOAD + 1) |-> FitsA],
      <<FitsA>>,
      <<Unnamed, FitsA, FitsA>>,
      <<FitsA, BigB>>,
      <<BigB, FitsA>> }

\* batches that store two names
TwoNameBatches == { <<FitsA>>, <<SmallB>>, <<FitsA, SmallB>> }

InFlight(p) == pc[p] \notin {"idle", "done"}

\* ---- names on disk (upload, lines 319-330 and 353-354)
\* orig.replace("\\", "_").replace("/", "_")
safe_orig(filename) ==
    [i \in DOMAIN filename |-> IF filename[i] \in {"\\", "/"} THEN "_" ELSE filename[i]]

SuffixAtoms == {".pdf", ".json"}

\* Path(safe_orig).suffix and Path(safe_orig).stem
Suffix(filename) ==
    IF Len(filename) > 1 /\ filename[Len(filename)] \in SuffixAtoms
    THEN filename[Len(filename)]
    ELSE ""

Stem(filename) ==
    IF Suffix(filename) # ""
    THEN Concat(SubSeq(filename, 1, Len(filename) - 1))
    ELSE Concat(filename)

\* uuid4().hex[:8]
FileId(n) == ToString(n)

unique_name(filename, n) ==
    Stem(safe_orig(filename)) \o "_" \o FileId(n) \o Suffix(safe_orig(filename))

norm_name(filename, n) ==
    Stem(safe_orig(filename)) \o "_" \o FileId(n) \o "_normalised.json"

AllFiles(folders) ==
    UNION {{folders[i].files[j] : j \in DOMAIN folders[i].files} : i \in DOMAIN folders}

ServerNamesOf(folders) == {e.server_name : e \in AllFiles(folders)}

\* the paths a caller sends: the server_name of a listed entry (of any
\* folder), a name that was never uploaded, a path with ".." segments
KnownPaths ==
    {<<dir, "/", unique_name(fn, n)>> :
        dir \in FolderIdInputs, fn \in {NameA, NameB}, n \in 1 .. MaxFiles}

GhostPath == <<"root", "\\", "ghost.pdf">>
DotDotPath == <<"fld_1", "/", "..", "/", "..", "/", "etc", "/", "passwd">>

ListedPaths(folders) == {raw \in KnownPaths : Concat(raw) \in ServerNamesOf(folders)}

PathInputs(folders) == ListedPaths(folders) \cup {GhostPath, DotDotPath}

\* more names than an error detail lists, none of them ever uploaded
GhostPaths == [k \in 1 .. (DETAIL_NAMES + 1) |-> <<"root", "/", "g" \o ToString(k)>>]

PathLists(folders) ==
    {<<x>> : x \in PathInputs(folders)}
        \cup {GhostPaths}
        \cup {pr \in ListedPaths(folders) \X ListedPaths(folders) : pr[1] # pr[2]}

FolderInputs(folders) == FolderIdsOf(folders) \cup {"nope"}

\* ------------------------------------------------------ common steps
Return(p, outcome) ==
    /\ pc' = [pc EXCEPT ![p] = "done"]
    /\ res' = [res EXCEPT ![p] = outcome]

LockIgnored == TRUE

\* META_LOCK can be acquired
LockFree == META_LOCK = 0

\* with META_LOCK: data = _load_metadata()
AcquireAndLoad(p) ==
    /\ LockFree
    /\ LET l == load_metadata(doc, dirs) IN
        /\ META_LOCK' = p
        /\ data' = [data EXCEPT ![p] = l.data]
        /\ doc' = l.doc
        /\ dirs' = l.dirs
    /\ loc' = [loc EXCEPT ![p].was = [doc |-> doc, disk |-> disk]]
    /\ pc' = [pc EXCEPT ![p] = "locked"]

\* a sync handler is called with the lock free: it acquires and loads
Begin(p, op) ==
    /\ pc[p] = "idle"
    /\ AcquireAndLoad(p)
    /\ req' = [req EXCEPT ![p] = [NoReq EXCEPT !.op = op]]
    /\ UNCHANGED <<disk, loop, next_folder, next_file, res>>
    /\ UNCHANGED tmp

\* the caller has its answer; the thread / task is free again
Finish(p) ==
    /\ pc[p] = "done"
    /\ pc' = [pc EXCEPT ![p] = "idle"]
    /\ req' = [req EXCEPT ![p] = NoReq]
    /\ data' = [data EXCEPT ![p] = <<>>]
    /\ loc' = [loc EXCEPT ![p] = NoLoc]
    /\ res' = [res EXCEPT ![p] = "none"]
    /\ UNCHANGED <<doc, dirs, disk, META_LOCK, loop, next_folder, next_file>>
    /\ UNCHANGED tmp

\* ------------------------------------------------------ GET /metadata
MetadataBegin(p) == Begin(p, "metadata")

MetadataReturn(p) ==
    /\ pc[p] = "locked"
    /\ req[p].op = "metadata"
    /\ META_LOCK' = 0
    /\ Return(p, "ok")
    /\ UNCHANGED <<doc, dirs, disk, loop, next_folder, next_file, req, data, loc>>
    /\ UNCHANGED tmp

\* ------------------------------------------------------ POST /folders
CreateFolderBegin(p) ==
    /\ next_folder <= MaxFolders
    /\ Begin(p, "create_folder")

name_exists_exact(folders, name) ==
    \E i \in DOMAIN folders : folders[i].name = name

\* any(str(f.get("name", "")).lower() == name.lower() for f in data["folders"])
name_exists(folders, name) ==
    \E i \in DOMAIN folders : Lower(folders[i].name) = Lower(name)

CreateFolderBody(p) ==
    /\ pc[p] = "locked"
    /\ req[p].op = "create_folder"
    /\ \E name \in FolderNames :
        /\ req' = [req EXCEPT ![p].name = name]
        /\ LET s == sanitize_name(name) IN
            IF ~s.ok
            THEN /\ Return(p, "InvalidName")
                 /\ UNCHANGED <<doc, dirs, next_folder, data>>
            ELSE IF name_exists(data[p], s.name)
            THEN /\ Return(p, "DuplicateName")
                 /\ UNCHANGED <<doc, dirs, next_folder, data>>
            ELSE LET folder_id == FolderId(next_folder)
                     d2 == Append(data[p],
                                  [id |-> folder_id, name |-> s.name, files |-> <<>>])
                 IN  /\ next_folder' = next_folder + 1
                     /\ dirs' = dirs \cup {folder_id}
                     /\ data' = [data EXCEPT ![p] = d2]
                     /\ doc' = OkDoc(d2)
                     /\ Return(p, "ok")
    /\ META_LOCK' = 0
    /\ UNCHANGED <<disk, loop, next_file, loc>>
    /\ UNCHANGED tmp

\* ---- create_folder with _save_metadata step by step
\* up to (STORAGE_DIR / folder_id).mkdir: the folder is appended to data
CreateFolderAppend(p) ==
    /\ pc[p] = "locked"
    /\ req[p].op = "create_folder"
    /\ \E name \in FolderNames :
        /\ req' = [req EXCEPT ![p].name = name]
        /\ LET s == sanitize_name(name) IN
            IF ~s.ok
            THEN /\ Return(p, "InvalidName")
                 /\ META_LOCK' = 0
                 /\ UNCHANGED <<dirs, next_folder, data>>
            ELSE IF name_exists(data[p], s.name)
            THEN /\ Return(p, "DuplicateName")
                 /\ META_LOCK' = 0
                 /\ UNCHANGED <<dirs, next_folder, data>>
            ELSE LET folder_id == FolderId(next_folder) IN
                 /\ next_folder' = next_folder + 1
                 /\ dirs' = dirs \cup {folder_id}
                 /\ data' = [data EXCEPT ![p] =
                        Append(@, [id |-> folder_id, name |-> s.name, files |-> <<>>])]
                 /\ pc' = [pc EXCEPT ![p] = "save"]
                 /\ UNCHANGED <<META_LOCK, res>>
    /\ UNCHANGED <<doc, tmp, disk, loop, next_file, loc>>

save_in_place == "metadata.json"

\* tmp = META_PATH.with_suffix(".tmp")
save_path == "metadata.tmp"

\* a write of the file the save writes to
WriteSaved(content) ==
    IF save_path = "metadata.tmp"
    THEN tmp' = content /\ UNCHANGED doc
    ELSE doc' = content /\ UNCHANGED tmp

\* with tmp.open("w"): the file exists and is empty
SaveOpen(p) ==
    /\ pc[p] = "save"
    /\ WriteSaved(GarbageDoc)
    /\ pc' = [pc EXCEPT ![p] = "dump"]
    /\ UNCHANGED <<dirs, disk, META_LOCK, loop, next_folder, next_file, req, data, loc, res>>

\* json.dump(data, f, indent=2), and the file is closed
SaveDump(p) ==
    /\ pc[p] = "dump"
    /\ WriteSaved(OkDoc(data[p]))
    /\ pc' = [pc EXCEPT ![p] = "replace"]
    /\ UNCHANGED <<dirs, disk, META_LOCK, loop, next_folder, next_file, req, data, loc, res>>

\* tmp.replace(META_PATH), and create_folder returns
SaveReplace(p) ==
    /\ pc[p] = "replace"
    /\ IF save_path = "metadata.tmp"
       THEN doc' = tmp /\ tmp' = AbsentDoc
       ELSE UNCHANGED <<doc, tmp>>
    /\ Return(p, "ok")
    /\ META_LOCK' = 0
    /\ UNCHANGED <<dirs, disk, loop, next_folder, next_file, req, data, loc>>

\* ------------------------------------------------------ DELETE /folders/{folder_id}
is_root_unchecked(folder_id) == FALSE

\* if folder_id == "root": raise 400
is_root(folder_id) == folder_id = "root"

DeleteFolderCall(p) ==
    /\ pc[p] = "idle"
    /\ \E folder_id \in FolderIdInputs :
        /\ req' = [req EXCEPT ![p] = [NoReq EXCEPT !.op = "delete_folder",
                                                   !.folder_id = folder_id]]
        /\ IF is_root(folder_id)
           THEN /\ Return(p, "RootProtected")
                /\ UNCHANGED <<doc, dirs, META_LOCK, data, loc>>
           ELSE /\ AcquireAndLoad(p)
                /\ UNCHANGED res
    /\ UNCHANGED <<disk, loop, next_folder, next_file>>
    /\ UNCHANGED tmp

\* data["folders"] = [f for f in data["folders"] if f.get("id") != folder_id]
without_folder(folders, folder_id) ==
    SelectSeq(folders, LAMBDA f : f.id # folder_id)

DeleteFolderBody(p) ==
    /\ pc[p] = "locked"
    /\ req[p].op = "delete_folder"
    /\ LET folder_id == req[p].folder_id IN
        IF get_folder(data[p], folder_id) = 0
        THEN /\ Return(p, "NotFound")
             /\ UNCHANGED <<doc, dirs, disk, data>>
        ELSE LET d2 == without_folder(data[p], folder_id) IN
             /\ dirs' = dirs \ {folder_id}
             /\ disk' = rmtree(disk, folder_id)
             /\ data' = [data EXCEPT ![p] = d2]
             /\ doc' = OkDoc(d2)
             /\ Return(p, "ok")
    /\ META_LOCK' = 0
    /\ UNCHANGED <<loop, next_folder, next_file, req, loc>>
    /\ UNCHANGED tmp

\* ------------------------------------------------------ DELETE /folders/{folder_id}/files
\* _find_file_entry: index of the first entry with this server_name, 0 for None
find_file_entry(folder, server_name) ==
    IF \E j \in DOMAIN folder.files : folder.files[j].server_name = server_name
    THEN CHOOSE j \in DOMAIN folder.files :
            /\ folder.files[j].server_name = server_name
            /\ \A k \in 1 .. (j - 1) : folder.files[k].server_name # server_name
    ELSE 0

\* [f for f in folder["files"] if f.get("server_name") != server_name]
without_file(files, server_name) ==
    SelectSeq(files, LAMBDA f : f.server_name # server_name)

DeleteFileBegin(p) == Begin(p, "delete_file")

DeleteFileBody(p) ==
    /\ pc[p] = "locked"
    /\ req[p].op = "delete_file"
    /\ \E folder_id \in FolderInputs(data[p]), path \in PathInputs(data[p]) :
        /\ req' = [req EXCEPT ![p].folder_id = folder_id, ![p].path = path]
        /\ LET k == get_folder(data[p], folder_id)
               r == safe_rel_path(path)
           IN
            IF k = 0
            THEN /\ Return(p, "NotFound")
                 /\ UNCHANGED <<doc, disk, data>>
            ELSE IF ~r.ok
            THEN /\ Return(p, "InvalidPath")
                 /\ UNCHANGED <<doc, disk, data>>
            ELSE LET j == find_file_entry(data[p][k], r.p) IN
                 IF j = 0
                 THEN /\ Return(p, "NotFound")
                      /\ UNCHANGED <<doc, disk, data>>
                 ELSE LET entry == data[p][k].files[j]
                          d2 == [data[p] EXCEPT ![k].files = without_file(@, r.p)]
                      IN  /\ disk' = delete_path_quiet(
                                        delete_path_quiet(disk, entry.server_name),
                                        entry.normalized_server_name)
                          /\ data' = [data EXCEPT ![p] = d2]
                          /\ doc' = OkDoc(d2)
                          /\ Return(p, "ok")
    /\ META_LOCK' = 0
    /\ UNCHANGED <<dirs, loop, next_folder, next_file, loc>>
    /\ UNCHANGED tmp

\* ------------------------------------------------------ POST /upload
Named(files) == {i \in DOMAIN files : files[i].filename # <<>>}

\* uuid4() draws an accepted batch may still make
Need(files) ==
    IF Len(files) > MAX_FILES_PER_UPLOAD THEN 0 ELSE Cardinality(Named(files))

PendingIds ==
    LET Left(q) ==
            IF ~InFlight(q) \/ req[q].op # "upload" THEN 0
            ELSE IF pc[q] = "await"
            THEN Cardinality({i \in Named(req[q].files) : i > loc[q].i})
            ELSE Need(req[q].files)
        Sum[S \in SUBSET Procs] ==
            IF S = {} THEN 0
            ELSE LET q == CHOOSE x \in S : TRUE IN Left(q) + Sum[S \ {q}]
    IN  Sum[Procs]

\* the event loop thread is not inside a task
LoopFree == loop = 0

\* the handler starts on the event loop; with the checks passed it goes on to
\* "with META_LOCK:", which blocks the event loop thread until it has the lock
UploadCallWith(p, batches) ==
    /\ pc[p] = "idle"
    /\ LoopFree
    /\ \E files \in batches :
        /\ next_file - 1 + PendingIds + Need(files) <= MaxFiles
        /\ req' = [req EXCEPT ![p] = [NoReq EXCEPT !.op = "upload", !.files = files]]
        /\ IF files = <<>>
           THEN Return(p, "NoFiles") /\ UNCHANGED loop
           ELSE IF Len(files) > MAX_FILES_PER_UPLOAD
           THEN Return(p, "TooMany") /\ UNCHANGED loop
           ELSE /\ pc' = [pc EXCEPT ![p] = "acquire"]
                /\ loop' = p
                /\ UNCHANGED res
    /\ UNCHANGED <<doc, dirs, disk, META_LOCK, next_folder, next_file, data, loc>>
    /\ UNCHANGED tmp

UploadCall(p) == UploadCallWith(p, Batches)

UploadCallTwoNames(p) == UploadCallWith(p, TwoNameBatches)

UploadAcquire(p) ==
    /\ pc[p] = "acquire"
    /\ AcquireAndLoad(p)
    /\ UNCHANGED <<disk, loop, next_folder, next_file, req, res>>
    /\ UNCHANGED tmp

existing_by_server_name(files) ==
    [n \in {files[j].server_name : j \in DOMAIN files} |->
        files[CHOOSE j \in DOMAIN files : files[j].server_name = n]]

\* {fe.get("original_name"): fe for fe in folder.get("files", [])}
existing_by_name(files) ==
    [n \in {files[j].original_name : j \in DOMAIN files} |->
        files[CHOOSE j \in DOMAIN files :
                /\ files[j].original_name = n
                /\ \A k \in (j + 1) .. Len(files) : files[k].original_name # n]]

\* for up in files: if not up.filename: continue
RECURSIVE next_named(_, _)
next_named(files, i) ==
    IF i > Len(files) THEN i
    ELSE IF files[i].filename = <<>> THEN next_named(files, i + 1)
    ELSE i

\* size > MAX_FILE_SIZE_BYTES
over_ceiling(size) == size > MAX_FILE_SIZE_BYTES

\* while True: chunk = await up.read(1024 * 1024) ...: the bytes written, or
\* too_large when size exceeds the ceiling
RECURSIVE read_all(_, _)
read_all(size, remaining) ==
    IF remaining = 0 THEN [too_large |-> FALSE, size |-> size]
    ELSE LET chunk == IF remaining < CHUNK_BYTES THEN remaining ELSE CHUNK_BYTES IN
         IF over_ceiling(size + chunk)
         THEN [too_large |-> TRUE, size |-> size + chunk]
         ELSE read_all(size + chunk, remaining - chunk)

\* the loop of upload from position i on: to the next await up.read, or past
\* the last upload to _save_metadata and the return
UploadAdvance(p, d, ex, dk, i) ==
    LET j == next_named(req[p].files, i) IN
    IF j > Len(req[p].files)
    THEN /\ doc' = OkDoc(d)
         /\ data' = [data EXCEPT ![p] = d]
         /\ disk' = dk
         /\ loc' = [loc EXCEPT ![p].i = j, ![p].existing = ex]
         /\ META_LOCK' = 0
         /\ loop' = 0
         /\ Return(p, "ok")
         /\ UNCHANGED next_file
    ELSE /\ next_file' = next_file + 1
         /\ disk' = dk \cup {DiskFile(req'[p].folder_id,
                                      unique_name(req[p].files[j].filename, next_file))}
         /\ data' = [data EXCEPT ![p] = d]
         /\ loc' = [loc EXCEPT ![p].i = j, ![p].fid = next_file, ![p].existing = ex]
         /\ pc' = [pc EXCEPT ![p] = "await"]
         /\ loop' = 0
         /\ UNCHANGED <<doc, META_LOCK, res>>

UploadBegin(p) ==
    /\ pc[p] = "locked"
    /\ req[p].op = "upload"
    /\ \E folder_id \in FolderInputs(data[p]) :
        /\ req' = [req EXCEPT ![p].folder_id = folder_id]
        /\ LET k == get_folder(data[p], folder_id) IN
            IF k = 0
            THEN /\ Return(p, "NotFound")
                 /\ META_LOCK' = 0
                 /\ loop' = 0
                 /\ UNCHANGED <<doc, dirs, disk, next_file, data, loc>>
            ELSE /\ dirs' = dirs \cup {folder_id}
                 /\ UploadAdvance(p, data[p], existing_by_name(data[p][k].files), disk, 1)
    /\ UNCHANGED next_folder
    /\ UNCHANGED tmp

unlink_skipped(dk, f) == dk

\* if full_path.exists(): full_path.unlink(missing_ok=True)
unlink(dk, f) == dk \ {f}

\* the event loop resumes the task at await up.read
UploadResume(p) ==
    /\ pc[p] = "await"
    /\ LoopFree
    /\ req' = req
    /\ LET folder_id == req[p].folder_id
           up == req[p].files[loc[p].i]
           orig == Concat(up.filename)
           full == DiskFile(folder_id, unique_name(up.filename, loc[p].fid))
           norm == DiskFile(folder_id, norm_name(up.filename, loc[p].fid))
           r == read_all(0, up.nbytes)
           k == get_folder(data[p], folder_id)
           ex == loc[p].existing
       IN
        IF r.too_large
        THEN /\ disk' = unlink(disk, full)
             /\ META_LOCK' = 0
             /\ Return(p, "TooLarge")
             /\ UNCHANGED <<doc, loop, next_file, data, loc>>
        ELSE LET entry == [original_name |-> orig,
                           server_name |-> Rel(full),
                           size |-> r.size,
                           normalized_server_name |-> Rel(norm)]
                 dup == orig \in DOMAIN ex
                 dk1 == disk \cup {norm}
                 dk2 == IF dup
                        THEN delete_path_quiet(
                                delete_path_quiet(dk1, ex[orig].server_name),
                                ex[orig].normalized_server_name)
                        ELSE dk1
                 kept == IF dup
                         THEN without_file(data[p][k].files, ex[orig].server_name)
                         ELSE data[p][k].files
                 d2 == [data[p] EXCEPT ![k].files = Append(kept, entry)]
                 ex2 == [n \in DOMAIN ex \cup {orig} |-> IF n = orig THEN entry ELSE ex[n]]
             IN  UploadAdvance(p, d2, ex2, dk2, loc[p].i + 1)
    /\ UNCHANGED <<dirs, next_folder>>
    /\ UNCHANGED tmp

\* ------------------------------------------------------ _validate_folder_files
\* (search, chat_search, iqa_process)
ValidateBegin(p) == Begin(p, "validate")

\* folder = _get_folder(data, folder_id), and the with block ends
ValidateLookup(p) ==
    /\ pc[p] = "locked"
    /\ req[p].op = "validate"
    /\ \E folder_id \in FolderInputs(data[p]), paths \in PathLists(data[p]) :
        /\ req' = [req EXCEPT ![p].folder_id = folder_id, ![p].paths = paths]
        /\ LET k == get_folder(data[p], folder_id) IN
            IF k = 0
            THEN /\ Return(p, "NotFound")
                 /\ UNCHANGED loc
            ELSE /\ loc' = [loc EXCEPT ![p].folder = data[p][k], ![p].i = 1]
                 /\ pc' = [pc EXCEPT ![p] = "check"]
                 /\ UNCHANGED res
    /\ META_LOCK' = 0
    /\ UNCHANGED <<doc, dirs, disk, loop, next_folder, next_file, data>>
    /\ UNCHANGED tmp

\* one turn of: for f in files
ValidateCheck(p) ==
    /\ pc[p] = "check"
    /\ loc[p].i <= Len(req[p].paths)
    /\ LET r == safe_rel_path(req[p].paths[loc[p].i])
           allowed == {loc[p].folder.files[j].server_name : j \in DOMAIN loc[p].folder.files}
       IN
        IF ~r.ok
        THEN /\ Return(p, "InvalidPath")
             /\ UNCHANGED loc
        ELSE /\ loc' = [loc EXCEPT
                    ![p].i = @ + 1,
                    ![p].not_in_folder = IF r.p \notin allowed THEN Append(@, r.p) ELSE @,
                    ![p].missing = IF r.p \in allowed /\ ~Exists(disk, r.p)
                                   THEN Append(@, r.p) ELSE @]
             /\ UNCHANGED <<pc, res>>
    /\ UNCHANGED <<doc, dirs, disk, META_LOCK, loop, next_folder, next_file, req, data>>
    /\ UNCHANGED tmp

all_names(names) == names

\* not_in_folder[:5], missing[:5]
first_names(names) ==
    SubSeq(names, 1, IF Len(names) < DETAIL_NAMES THEN Len(names) ELSE DETAIL_NAMES)

\* if not_in_folder: raise ...; if missing: raise ...; return folder
ValidateReturn(p) ==
    /\ pc[p] = "check"
    /\ loc[p].i > Len(req[p].paths)
    /\ Return(p, IF loc[p].not_in_folder # <<>> THEN "NotInFolder"
                 ELSE IF loc[p].missing # <<>> THEN "MissingOnDisk"
                 ELSE "ok")
    /\ loc' = [loc EXCEPT ![p].detail =
                IF loc[p].not_in_folder # <<>> THEN first_names(loc[p].not_in_folder)
                ELSE first_names(loc[p].missing)]
    /\ UNCHANGED <<doc, dirs, disk, META_LOCK, loop, next_folder, next_file, req, data>>
    /\ UNCHANGED tmp

\* ------------------------------------------------------ _safe_full_path
\* server_name strings, character by character: inside the storage
\* directory (relative and absolute), the storage directory itself, a sibling
\* directory whose name starts with the storage directory's, elsewhere
FullPathInputs ==
    { <<"r", "/", "f">>,
      <<"/", "a", "/", "s", "/", "r", "/", "f">>,
      <<"/", "a", "/", "s">>,
      <<".">>,
      <<"/", "a", "/", "s", "2", "/", "f">>,
      <<"\\", "a", "\\", "s", "2">>,
      <<"/", "e", "/", "p">>,
      <<"r", "/", ".", ".", "/", ".", ".", "/", "e">>,
      <<" ">> }

SafeFullPathCall(p) ==
    /\ pc[p] = "idle"
    /\ \E server_name \in FullPathInputs :
        LET r == safe_full_path(server_name) IN
        /\ req' = [req EXCEPT ![p] = [NoReq EXCEPT !.op = "safe_full_path",
                                                   !.path = server_name]]
        /\ loc' = [loc EXCEPT ![p].full = r.full]
        /\ Return(p, IF r.ok THEN "ok" ELSE "InvalidPath")
    /\ UNCHANGED <<doc, dirs, disk, META_LOCK, loop, next_folder, next_file, data>>
    /\ UNCHANGED tmp

\* ------------------------------------------------------ the system
\* an answer is looked at (Finish) before the next step of any handler
NoneDone == \A q \in Procs : pc[q] # "done"

\* no other handler is in the path checks of a validation
Quiet(p) == \A q \in Procs \ {p} : pc[q] # "check"

Ready(p) == NoneDone /\ Quiet(p)

\* handlers of every kind, run by every thread; the path checks of a
\* validation, which hold no lock and write nothing, are not interleaved
\* with the steps of other handlers here (SpecRace interleaves them)
Next ==
    \E p \in Procs :
        \/ Ready(p) /\ MetadataBegin(p)
        \/ Ready(p) /\ MetadataReturn(p)
        \/ Ready(p) /\ CreateFolderBegin(p)
        \/ Ready(p) /\ CreateFolderBody(p)
        \/ Ready(p) /\ DeleteFolderCall(p)
        \/ Ready(p) /\ DeleteFolderBody(p)
        \/ Ready(p) /\ DeleteFileBegin(p)
        \/ Ready(p) /\ DeleteFileBody(p)
        \/ Ready(p) /\ UploadCall(p)
        \/ Ready(p) /\ UploadAcquire(p)
        \/ Ready(p) /\ UploadBegin(p)
        \/ Ready(p) /\ UploadResume(p)
        \/ Ready(p) /\ ValidateBegin(p)
        \/ Ready(p) /\ ValidateLookup(p)
        \/ Ready(p) /\ ValidateCheck(p)
        \/ Ready(p) /\ ValidateReturn(p)
        \/ Finish(p)

Spec == Init /\ [][Next]_vars

\* ------------------------------------------------------ specifications
\* two calls of create_folder, one per thread, and nothing else
NextCreate ==
    \E p \in Procs :
        \/ CreateFolderBegin(p)
        \/ CreateFolderBody(p)

SpecCreate == Init /\ [][NextCreate]_vars

\* thread 1 uploads and validates, thread 2 deletes files; the path checks
\* of a validation interleave with the steps of the deletion
NextRace ==
    \/ NoneDone /\ UploadCall(1)
    \/ NoneDone /\ UploadAcquire(1)
    \/ NoneDone /\ UploadBegin(1)
    \/ NoneDone /\ UploadResume(1)
    \/ NoneDone /\ ValidateBegin(1)
    \/ NoneDone /\ ValidateLookup(1)
    \/ NoneDone /\ ValidateCheck(1)
    \/ NoneDone /\ ValidateReturn(1)
    \/ NoneDone /\ DeleteFileBegin(2)
    \/ NoneDone /\ DeleteFileBody(2)
    \/ \E p \in Procs : Finish(p)

SpecRace == Init /\ [][NextRace]_vars

\* items a folders list read from metadata.json may hold: the root folder,
\* another folder, a value that is no mapping, mappings without an id,
\* without name and files, without files
FolderItems ==
    { RootFolder,
      [id |-> "fld_1", name |-> <<"d", "o", "c", "s">>, files |-> <<>>],
      [text |-> "x"],
      [name |-> <<"d", "o", "c", "s">>, files |-> <<>>],
      [id |-> "root"],
      [id |-> "fld_1", name |-> <<"d", "o", "c", "s">>] }

LoadDocs ==
    {AbsentDoc, GarbageDoc, NoShapeDoc, OkDoc(<<>>)}
        \cup {OkDoc(<<f>>) : f \in FolderItems}
        \cup {OkDoc(<<f, g>>) : f \in FolderItems, g \in FolderItems}

InitLoad ==
    /\ doc \in LoadDocs
    /\ tmp = AbsentDoc
    /\ dirs = {}
    /\ disk = {}
    /\ META_LOCK = 0
    /\ loop = 0
    /\ next_folder = 1
    /\ next_file = 1
    /\ pc = [p \in Procs |-> "idle"]
    /\ req = [p \in Procs |-> NoReq]
    /\ data = [p \in Procs |-> <<>>]
    /\ loc = [p \in Procs |-> NoLoc]
    /\ res = [p \in Procs |-> "none"]

\* GET /metadata on any document: _load_metadata and nothing else
NextLoad ==
    \E p \in Procs :
        \/ MetadataBegin(p)
        \/ MetadataReturn(p)
        \/ Finish(p)

SpecLoad == InitLoad /\ [][NextLoad]_vars

\* create_folder with its save step by step, and GET /metadata
NextSave ==
    \E p \in Procs :
        \/ NoneDone /\ CreateFolderBegin(p)
        \/ NoneDone /\ CreateFolderAppend(p)
        \/ NoneDone /\ SaveOpen(p)
        \/ NoneDone /\ SaveDump(p)
        \/ NoneDone /\ SaveReplace(p)
        \/ NoneDone /\ MetadataBegin(p)
        \/ NoneDone /\ MetadataReturn(p)
        \/ Finish(p)

SpecSave == Init /\ [][NextSave]_vars

\* thread 1 creates folders and uploads two names, thread 2 deletes files
NextFiles ==
    \/ NoneDone /\ CreateFolderBegin(1)
    \/ NoneDone /\ CreateFolderBody(1)
    \/ NoneDone /\ UploadCallTwoNames(1)
    \/ NoneDone /\ UploadAcquire(1)
    \/ NoneDone /\ UploadBegin(1)
    \/ NoneDone /\ UploadResume(1)
    \/ NoneDone /\ DeleteFileBegin(2)
    \/ NoneDone /\ DeleteFileBody(2)
    \/ \E p \in Procs : Finish(p)

SpecFiles == Init /\ [][NextFiles]_vars

\* calls of _safe_full_path, and nothing else
NextPath ==
    \E p \in Procs :
        \/ SafeFullPathCall(p)
        \/ Finish(p)

SpecPath == Init /\ [][NextPath]_vars

\* ------------------------------------------------------ properties
NoneInFlight == \A p \in Procs : ~InFlight(p)

Returned(p, op) == pc[p] = "done" /\ req[p].op = op

FolderOf(folders, folder_id) == folders[get_folder(folders, folder_id)]

EntriesOf(folder) == {folder.files[j] : j \in DOMAIN folder.files}

\* C1: every catalog a handler has loaded, and every catalog document the
\* handlers have written, holds a folder with id "root"; delete_folder("root")
\* fails with RootProtected.
C1_RootAlwaysPresent ==
    /\ \A p \in Procs : pc[p] \in {"locked", "await", "check"} => HasRoot(data[p])
    /\ \A p \in Procs :
        pc[p] = "done" /\ res[p] \notin {"RootProtected", "NoFiles", "TooMany"}
            => HasRoot(data[p]) /\ doc.kind = "ok" /\ HasRoot(doc.folders)
    /\ doc.kind = "ok" /\ doc.folders # <<>> => HasRoot(doc.folders)
    /\ \A p \in Procs :
        Returned(p, "delete_folder") /\ req[p].folder_id = "root"
            => res[p] = "RootProtected"

C1_Witness ==
    \E p \in Procs :
        /\ Returned(p, "delete_folder")
        /\ req[p].folder_id = "root"
        /\ res[p] = "RootProtected"
        /\ Len(doc.folders) = 3
        /\ disk # {}

\* the name a create_folder call asked for, trimmed and checked
Sanitized(p) == sanitize_name(req[p].name)

\* the folder a successful create_folder appended to the list it returns
NewFolder(p) == data[p][Len(data[p])]

\* the order in which the two calls held the lock, seen in what they return
NoLostUpdate(p, q) ==
    /\ res[p] = "ok"
    /\ res[q] = "ok"
    /\ NewFolder(p).id # NewFolder(q).id
    /\ NewFolder(p).name = Sanitized(p).name
    /\ NewFolder(q).name = Sanitized(q).name
    /\ \/ data[q] = Append(data[p], NewFolder(q)) /\ doc = OkDoc(data[q])
       \/ data[p] = Append(data[q], NewFolder(p)) /\ doc = OkDoc(data[p])

BothReturned(p, q) ==
    /\ p # q
    /\ Returned(p, "create_folder")
    /\ Returned(q, "create_folder")
    /\ Sanitized(p).ok
    /\ Sanitized(q).ok

\* C2 (as the claim states it): two calls of create_folder with distinct
\* valid names both succeed, and the persisted catalog then holds exactly two
\* new folders, with distinct ids, one per name.
C2_DistinctNamesBothSucceed ==
    \A p \in Procs, q \in Procs :
        BothReturned(p, q) /\ req[p].name # req[q].name => NoLostUpdate(p, q)

\* the folders of the persisted catalog that neither call created
PresentBefore(p, q) ==
    LET created == {NewFolder(r).id : r \in {x \in {p, q} : res[x] = "ok"}} IN
    SelectSeq(doc.folders, LAMBDA f : f.id \notin created)

\* C2 (amended): the same, for names that differ ignoring case once trimmed
\* and that no folder present before the two calls has, ignoring case.
C2_TwoCreatesNoLostUpdate ==
    \A p \in Procs, q \in Procs :
        /\ BothReturned(p, q)
        /\ Lower(Sanitized(p).name) # Lower(Sanitized(q).name)
        /\ ~name_exists(PresentBefore(p, q), Sanitized(p).name)
        /\ ~name_exists(PresentBefore(p, q), Sanitized(q).name)
        => NoLostUpdate(p, q)

C2_Witness ==
    \E p \in Procs, q \in Procs :
        /\ BothReturned(p, q)
        /\ req[p].name = <<"d", "o", "c", "s">>
        /\ req[q].name = <<" ", "P", "i", "c", " ">>
        /\ NoLostUpdate(p, q)
        /\ Len(doc.folders) = 3

\* between the load of the catalog and the save / return
InCritical(p) == pc[p] \in {"locked", "await", "save", "dump", "replace"}

\* C3: at most one handler is between its load of the catalog document and
\* its save / return, and it is the holder of META_LOCK.
C3_MutualExclusion ==
    \A p \in Procs :
        InCritical(p) => META_LOCK = p /\ \A q \in Procs \ {p} : ~InCritical(q)

C3_Witness ==
    \E p \in Procs, q \in Procs :
        /\ pc[p] = "await"
        /\ pc[q] = "acquire"
        /\ META_LOCK = p

\* a handler whose next step is not possible in this state
Waits(p) ==
    \/ pc[p] = "acquire" /\ ~LockFree
    \/ pc[p] = "await" /\ ~LoopFree

\* C4 (as the claim states it): no handler waits for ever; in every state
\* with a handler between call and return, one of them can take its next
\* step (the guards of UploadAcquire and UploadResume; the other steps of a
\* handler have none).
C4_NoHandlerBlocksForEver ==
    (\E p \in Procs : InFlight(p)) => \E p \in Procs : InFlight(p) /\ ~Waits(p)

\* C5 (as the claim states it): when a validation returns the folder, every
\* path it was given names, once normalised, an entry of that folder in the
\* persisted catalog, and the file exists on disk at that moment.
C5_ValidatedFilesExist ==
    \A p \in Procs :
        Returned(p, "validate") /\ res[p] = "ok" =>
            \A i \in DOMAIN req[p].paths :
                LET r == safe_rel_path(req[p].paths[i])
                    k == get_folder(doc.folders, req[p].folder_id)
                IN  /\ r.ok
                    /\ k # 0
                    /\ r.p \in {e.server_name : e \in EntriesOf(doc.folders[k])}
                    /\ Exists(disk, r.p)

\* a step of upload that stores the file it was reading
StoresUpload(p) ==
    /\ pc[p] = "await"
    /\ \/ pc'[p] = "done" /\ res'[p] # "TooLarge"
       \/ pc'[p] = "await" /\ loc'[p].i # loc[p].i

C7_TooLargeLeavesNothing ==
    \A p \in Procs :
        Returned(p, "upload") /\ res[p] = "TooLarge" =>
            LET up == req[p].files[loc[p].i]
                full == Rel(DiskFile(req[p].folder_id, unique_name(up.filename, loc[p].fid)))
                norm == Rel(DiskFile(req[p].folder_id, norm_name(up.filename, loc[p].fid)))
            IN  /\ over_ceiling(up.nbytes)
                /\ ~Exists(disk, full)
                /\ ~Exists(disk, norm)
                /\ \A e \in AllFiles(doc.folders) :
                    /\ e.server_name # full
                    /\ e.normalized_server_name # norm

C7_Witness ==
    \E p \in Procs :
        /\ Returned(p, "upload")
        /\ res[p] = "TooLarge"
        /\ req[p].files[loc[p].i] = BigB

\* C8 (as the claim states it): after an upload of a batch went over the
\* ceiling, every other upload of the batch has its entry in the persisted
\* catalog and its file on disk.
C8_SiblingsCommitted ==
    \A p \in Procs :
        Returned(p, "upload") /\ res[p] = "TooLarge" =>
            \A i \in Named(req[p].files) :
                ~over_ceiling(req[p].files[i].nbytes) =>
                    \E e \in EntriesOf(FolderOf(doc.folders, req[p].folder_id)) :
                        /\ e.original_name = Concat(req[p].files[i].filename)
                        /\ Exists(disk, e.server_name)

\* C9 (as the claim states it): with no handler between call and return,
\* both files of every entry of the persisted catalog exist on disk.
C9_EntriesHaveFiles ==
    NoneInFlight =>
        \A e \in AllFiles(doc.folders) :
            /\ Exists(disk, e.server_name)
            /\ Exists(disk, e.normalized_server_name)

\* C10 (as the claim states it): with no handler between call and return,
\* every file in a folder directory is referenced by exactly one entry of
\* the persisted catalog.
C10_NoOrphanFiles ==
    NoneInFlight =>
        \A f \in disk :
            Cardinality({e \in AllFiles(doc.folders) :
                Rel(f) \in {e.server_name, e.normalized_server_name}}) = 1

\* the folders of a catalog whose name is this one, ignoring case
Namesakes(folders, name) ==
    {i \in DOMAIN folders : Lower(folders[i].name) = Lower(name)}

\* C11: no two folders of the persisted catalog have the same name ignoring
\* case; a create_folder with a valid name answers DuplicateName exactly when
\* a folder of the catalog it loaded has that name ignoring case, and when
\* it succeeds the new folder is the only one of that name.
C11_FolderNamesUnique ==
    /\ \A i \in DOMAIN doc.folders :
        Namesakes(doc.folders, doc.folders[i].name) = {i}
    /\ \A p \in Procs :
        Returned(p, "create_folder") /\ Sanitized(p).ok =>
            /\ res[p] \in {"ok", "DuplicateName"}
            /\ res[p] = "DuplicateName" =>
                /\ Namesakes(data[p], Sanitized(p).name) # {}
                /\ doc = OkDoc(data[p])
            /\ res[p] = "ok" =>
                Namesakes(data[p], Sanitized(p).name) = {Len(data[p])}

\* "Docs" was asked for with a folder "docs" in the catalog
C11_Witness ==
    \E p \in Procs :
        /\ Returned(p, "create_folder")
        /\ req[p].name = <<"D", "o", "c", "s">>
        /\ res[p] = "DuplicateName"
        /\ \E i \in DOMAIN doc.folders : doc.folders[i].name = <<"d", "o", "c", "s">>

\* the paths a validation was given, normalised, in the order given
Requested(p) == [i \in DOMAIN req[p].paths |-> safe_rel_path(req[p].paths[i]).p]

\* the server_names recorded for the folder of a validation
Recorded(p) ==
    {e.server_name : e \in EntriesOf(FolderOf(doc.folders, req[p].folder_id))}

Unrecorded(p) == SelectSeq(Requested(p), LAMBDA n : n \notin Recorded(p))

Absent(p) ==
    SelectSeq(Requested(p), LAMBDA n : n \in Recorded(p) /\ ~Exists(disk, n))

Listed(p) == {loc[p].detail[k] : k \in DOMAIN loc[p].detail}

Judged(p) ==
    /\ Returned(p, "validate")
    /\ res[p] \in {"ok", "NotInFolder", "MissingOnDisk"}

Leads(names, detail) ==
    /\ Len(detail) = (IF Len(names) < DETAIL_NAMES THEN Len(names) ELSE DETAIL_NAMES)
    /\ \A k \in DOMAIN detail : detail[k] = names[k]

C12_MissingReached ==
    \E p \in Procs :
        /\ Judged(p)
        /\ res[p] = "MissingOnDisk"
        /\ loc[p].detail = Absent(p)
        /\ Absent(p) # <<>>

\* a path one of whose segments is ".."
HasDotDot(raw) ==
    LET segs == SplitSlash(ReplaceBackslash(raw), "") IN
    \E i \in DOMAIN segs : segs[i] = ".."

\* a delete_file or a validation that was given such a path has returned
GivenDotDot(p) ==
    \/ Returned(p, "delete_file") /\ HasDotDot(req[p].path)
    \/ Returned(p, "validate") /\ \E i \in DOMAIN req[p].paths : HasDotDot(req[p].paths[i])

\* C13 (as the claim states it): a delete_file or a validation given a path
\* with a ".." segment answers InvalidPath, and has not read the catalog
\* document (nor made any other filesystem call) when it does.
C13_GuardComesFirst ==
    \A p \in Procs :
        GivenDotDot(p) => res[p] = "InvalidPath" /\ data[p] = <<>>

\* the path is the storage directory or lies in it
InStorage(full) ==
    Len(full) >= Len(STORAGE_DIR) /\ SubSeq(full, 1, Len(STORAGE_DIR)) = STORAGE_DIR

\* C14 (as the claim states it): _safe_full_path answers with a path only
\* if the path is the storage directory or lies in it, and otherwise with
\* InvalidPath.
C14_ResultInsideStorage ==
    \A p \in Procs :
        Returned(p, "safe_full_path") =>
            IF res[p] = "ok"
            THEN InStorage(loc[p].full)
            ELSE res[p] = "InvalidPath" /\ loc[p].full = <<>>

\* a folder item with the structure of a folder
WellFormed(f) == IsMapping(f) /\ DOMAIN f = {"id", "name", "files"}

\* the document is absent, unparsable, or lacks the required structure
Unsound(d) ==
    \/ d.kind \in {"absent", "garbage", "noshape"}
    \/ \E i \in DOMAIN d.folders : ~WellFormed(d.folders[i])

\* a handler's call of _load_metadata
Loads(p) == pc[p] \in {"idle", "acquire"} /\ pc'[p] = "locked"

\* C15 (as the claim states it): _load_metadata on a document that is
\* absent, unparsable or lacks the required structure returns the fresh
\* catalog (the root folder only) and leaves it as the persisted document.
C15_UnsoundDocumentIsReset ==
    [][\A p \in Procs :
        Loads(p) /\ Unsound(doc) =>
            /\ data'[p] = default_metadata
            /\ doc' = OkDoc(default_metadata)
    ]_vars

\* C16 (as the claim states it): when _load_metadata has returned, each
\* folder id of the catalog it returned has its directory on disk.
C16_LoadedFoldersHaveDirs ==
    \A p \in Procs :
        pc[p] = "locked" => \A i \in DOMAIN data[p] : data[p][i].id \in dirs

\* a create_folder is in _save_metadata
Saving(p) == pc[p] \in {"save", "dump", "replace"}

\* the catalog before the folder was appended
Previous(p) == SubSeq(data[p], 1, Len(data[p]) - 1)

\* C17: at every point of a save, the temporary file written or not, the
\* persisted document is the complete previous catalog, and it is the
\* complete new catalog once the save is over; a load at that point reads
\* one of the two.
C17_SaveIsAtomic ==
    \A p \in Procs :
        /\ Saving(p) =>
            /\ doc = OkDoc(Previous(p))
            /\ load_metadata(doc, dirs).data \in {Previous(p), data[p]}
        /\ Returned(p, "create_folder") /\ res[p] = "ok" =>
            /\ doc = OkDoc(data[p])
            /\ tmp = AbsentDoc

\* the temporary file holds the new catalog, with a second folder appended,
\* and is not renamed yet
C17_Witness ==
    \E p \in Procs :
        /\ pc[p] = "replace"
        /\ tmp = OkDoc(data[p])
        /\ Len(data[p]) = 3
        /\ doc = OkDoc(Previous(p))

\* a document a save has written: a catalog, never an empty one
WrittenBySave(d) == d.kind = "ok" /\ d.folders # <<>>

DeleteFileReturns(p) ==
    pc[p] = "locked" /\ req[p].op = "delete_file" /\ pc'[p] = "done"

\* the entries of a folder with this server_name
Matching(folder, server_name) ==
    {j \in DOMAIN folder.files : folder.files[j].server_name = server_name}

\* exactly the entry j of the folder k is removed, its two files are deleted,
\* and the rest of the catalog and of the disk is as it was
RemovesOnly(p, k, j) ==
    LET entry == data[p][k].files[j] IN
    /\ res'[p] = "ok"
    /\ Len(data'[p]) = Len(data[p])
    /\ \A i \in DOMAIN data[p] : i # k => data'[p][i] = data[p][i]
    /\ data'[p][k].id = data[p][k].id
    /\ data'[p][k].name = data[p][k].name
    /\ data'[p][k].files =
        [n \in 1 .. (Len(data[p][k].files) - 1) |->
            IF n < j THEN data[p][k].files[n] ELSE data[p][k].files[n + 1]]
    /\ doc' = OkDoc(data'[p])
    /\ disk' = {f \in disk :
            Rel(f) \notin {entry.server_name, entry.normalized_server_name}}
    /\ Cardinality(disk') = Cardinality(disk) - 2

\* C19 (as the claim states it): delete_file on a folder none of whose
\* entries has the server_name given answers NotFound, an entry of another
\* folder having it or not; otherwise it removes exactly that entry and its
\* two files and leaves every other entry and file as it was.
C19_DeletesExactlyOneEntry ==
    [][\A p \in Procs :
        DeleteFileReturns(p) =>
            LET k == get_folder(data[p], req'[p].folder_id)
                hits == IF k = 0 THEN {} ELSE Matching(data[p][k], Concat(req'[p].path))
            IN  k # 0 =>
                    IF hits = {}
                    THEN res'[p] = "NotFound"
                    ELSE \E j \in hits : hits = {j} /\ RemovesOnly(p, k, j)
    ]_vars

\* C19 (amended): the same, for a server_name that passes the path guard,
\* compared with the entries in its normalised form.
C19_DeletesExactlyOneValid ==
    [][\A p \in Procs :
        DeleteFileReturns(p) =>
            LET k == get_folder(data[p], req'[p].folder_id)
                r == safe_rel_path(req'[p].path)
                hits == IF k = 0 THEN {} ELSE Matching(data[p][k], r.p)
            IN  k # 0 /\ r.ok =>
                    IF hits = {}
                    THEN res'[p] = "NotFound"
                    ELSE \E j \in hits : hits = {j} /\ RemovesOnly(p, k, j)
    ]_vars

\* an entry of root was deleted while root kept another entry and a second
\* folder kept its own
C19_Witness ==
    \E p \in Procs :
        /\ Returned(p, "delete_file")
        /\ res[p] = "ok"
        /\ req[p].folder_id = "root"
        /\ Len(data[p]) = 2
        /\ Len(data[p][1].files) = 1
        /\ Len(data[p][2].files) = 1
        /\ Cardinality(disk) = 4

\* the server_name is an entry of another folder only
C19_OtherFolderReached ==
    \E p \in Procs :
        /\ Returned(p, "delete_file")
        /\ res[p] = "NotFound"
        /\ get_folder(data[p], req[p].folder_id) # 0
        /\ Concat(req[p].path) \in ServerNamesOf(data[p])

\* the errors the claim lists, per operation
ErrorsOf(op) ==
    IF op = "create_folder" THEN {"InvalidName", "DuplicateName"}
    ELSE IF op = "delete_folder" THEN {"RootProtected", "NotFound"}
    ELSE IF op = "delete_file" THEN {"InvalidPath", "NotFound"}
    ELSE IF op = "upload" THEN {"NotFound", "TooMany", "TooLarge"}
    ELSE {}

\* the step in which a handler answers with one of them
Fails(p) ==
    pc[p] # "done" /\ pc'[p] = "done" /\ res'[p] \in ErrorsOf(req'[p].op)

\* the persisted document and the files when the handler was called: as they
\* are, for a handler that answers in its first step, and else as they were
\* when it took the lock
Before(p) ==
    IF pc[p] = "idle" THEN [doc |-> doc, disk |-> disk] ELSE loc[p].was

\* C20 (as the claim states it): a handler that answers with an error,
\* called with a valid persisted catalog, leaves the persisted catalog and
\* the files on disk as they were when it was called.
C20_ErrorsChangeNothing ==
    [][\A p \in Procs :
        Fails(p) /\ WrittenBySave(Before(p).doc) =>
            /\ doc' = Before(p).doc
            /\ disk' = Before(p).disk
    ]_vars

====
